---- MODULE Spec2Model ----
(***************************************************************************)
(* Model of Assets::Model (src/Assets/Model.cpp): the two factories        *)
(* LoadModel and CreateSphere, and the mutators Transform and SetMaterial. *)
(*                                                                         *)
(* LoadModel is modelled step by step (parse, warning, materials, one      *)
(* step per corner of the corner loop, return) because several properties  *)
(* speak about the intermediate states of the corner loop.                 *)
(*                                                                         *)
(* Floats are modelled by integers: coordinates by small integers, colour  *)
(* channels in tenths (1.0 is 10, 0.7f is 7).                              *)
(*                                                                         *)
(* The parser outputs enumerated here are files in which every corner      *)
(* carries a normal, and in which a corner carries a texcoord index        *)
(* exactly when the file has texcoords (otherwise the index is -1, as the  *)
(* parser reports an absent attribute).                                    *)
(***************************************************************************)
EXTENDS Integers, Sequences, FiniteSets, TLC

VARIABLES
    pc,             \* position of the object's lifecycle / of LoadModel
    objAttrib,      \* LoadModel local: attribute arrays filled by the parser
    objShapes,      \* LoadModel local: shapes filled by the parser
    objMaterials,   \* LoadModel local: material records filled by the parser
    warn,           \* LoadModel local: the parser's warning text
    materials,      \* LoadModel local: resolved material table
    vertices,       \* LoadModel local: unique vertex buffer
    indices,        \* LoadModel local: index buffer
    uniqueVertices, \* LoadModel local: unordered_map<Vertex, uint32_t>
    faceId,         \* LoadModel local: running corner counter
    shapeIdx,       \* outer loop position: shape being walked (1-based)
    cornerIdx,      \* inner loop position: corners of that shape consumed
    corners,        \* history: <<vertex assembled, shape, corner>> per corner visited
    console,        \* diagnostics sink: messages written through Console::Write
    constructed,    \* a Model object exists
    vertices_,      \* Model::vertices_
    indices_,       \* Model::indices_
    materials_,     \* Model::materials_
    procedural_,    \* Model::procedural_ (Nullptr or <<sphere>>)
    thrown,         \* the exception the last call raised ("" when none)
    transformCalls  \* number of Transform calls so far (bounded)

vars == <<pc, objAttrib, objShapes, objMaterials, warn, materials, vertices,
          indices, uniqueVertices, faceId, shapeIdx, cornerIdx, corners,
          console, constructed, vertices_, indices_, materials_, procedural_,
          thrown, transformCalls>>

locals == <<objAttrib, objShapes, objMaterials, warn, materials, vertices,
            indices, uniqueVertices, faceId, shapeIdx, cornerIdx, corners>>

fields == <<vertices_, indices_, materials_, procedural_>>

----------------------------------------------------------------------------
(* Bounds of the model *)

\* total number of faces in a parsed file
MaxFaces == 2
\* number of material records in a parsed file
MaxObjMaterials == 2
\* number of Transform calls made on one Model
MaxTransformCalls == 1

----------------------------------------------------------------------------
(* Helpers *)

Range(s) == { s[i] : i \in 1..Len(s) }

Max(a, b) == IF a >= b THEN a ELSE b

\* zero-based read of a flat array
At(arr, i) == arr[i + 1]

Nullptr == << >>

EmptyAttrib == [vertices |-> << >>, normals |-> << >>, texcoords |-> << >>]

----------------------------------------------------------------------------
(* What the parser can hand to LoadModel *)

\* the position array: three positions, the third a repeat of the first
ObjPositions == <<0, 0, 0,  1, 0, 0,  0, 0, 0>>

\* the normal array: two normals
ObjNormals == <<0, 0, 1,  0, 1, 0>>

\* the texcoord array of a file that has texcoords: two texcoords
ObjTexCoords == <<0, 1,  1, 0>>

Corner(v, n, t) == [vertex_index |-> v, normal_index |-> n, texcoord_index |-> t]

\* the triangles a file is made of; t is applied to the texcoord index
\* (identity for a file with texcoords, constant -1 for a file without)
FaceChoices(hasTex) ==
    LET T(i) == IF hasTex THEN i ELSE -1
    IN  { << Corner(0, 0, T(0)), Corner(1, 0, T(1)), Corner(0, 1, T(0)) >>,
          << Corner(2, 0, T(0)), Corner(1, 0, T(1)), Corner(1, 0, T(0)) >> }

\* the material id of a face: -1 (no material) or the index of the last of the
\* file's materials
MaterialIds(nmat) == { -1 } \cup { nmat - 1 : i \in 1..nmat }

RECURSIVE Flatten(_)
Flatten(faces) ==
    IF Len(faces) = 0 THEN << >> ELSE Head(faces) \o Flatten(Tail(faces))

\* the shapes of k faces
ShapesOf(k, nmat, hasTex) ==
    { [mesh |-> [indices |-> Flatten(fs), material_ids |-> ms]] :
        fs \in [1..k -> FaceChoices(hasTex)], ms \in [1..k -> MaterialIds(nmat)] }

\* the shape lists of exactly n faces in total, no shape empty
RECURSIVE ShapeLists(_, _, _)
ShapeLists(n, nmat, hasTex) ==
    IF n = 0 THEN { << >> }
    ELSE UNION { { <<sh>> \o rest : sh \in ShapesOf(k, nmat, hasTex),
                                   rest \in ShapeLists(n - k, nmat, hasTex) } :
                 k \in 1..n }

\* the material records of a file with nmat materials (diffuse rgb, in tenths)
ObjMaterialList(nmat) == [i \in 1..nmat |-> [diffuse |-> <<i, 0, 10 - i>>]]

\* the warnings of a parse: none, or, for a file left without materials, that
\* its material file was not found
Warnings(nmat) == IF nmat = 0 THEN {"", "material file not found"} ELSE {""}

\* what tinyobj::LoadObj leaves behind when it returns false
ParserFailures ==
    { [ok |-> FALSE, warn |-> "", err |-> "cannot open file",
       attrib |-> EmptyAttrib, shapes |-> << >>, materials |-> << >>] }

\* what tinyobj::LoadObj leaves behind when it returns true
ParserSuccesses ==
    UNION { { [ok |-> TRUE, warn |-> w, err |-> "",
               attrib |-> [vertices |-> ObjPositions, normals |-> ObjNormals,
                           texcoords |-> IF hasTex THEN ObjTexCoords ELSE << >>],
               shapes |-> shs,
               materials |-> ObjMaterialList(nmat)] :
              w \in Warnings(nmat),
              shs \in ShapeLists(n, nmat, hasTex) } :
            n \in 0..MaxFaces, nmat \in 0..MaxObjMaterials, hasTex \in BOOLEAN }

\* everything tinyobj::LoadObj can return
ParserOutputs == ParserFailures \cup ParserSuccesses

----------------------------------------------------------------------------
(* LoadModel *)

\* static_cast<uint32_t> of a size: the cast wraps at 2^32, TLC's integers
\* end below 2^31, so on every size that can occur here it is the identity
UInt32(n) == n

EmptyMap == [v \in {} |-> 0]

\* the values a read past the end of a vector<int> can produce.  The memory
\* there is not the vector's, so the value read is any int; two stand for
\* them all: a negative one, and one too large for any material table here
OutOfBoundsInts == { -1, MaxObjMaterials }

\* mesh.material_ids[faceId / 3]: the outcomes of the read
MaterialIdRead(material_ids, fid) ==
    IF fid \div 3 < Len(material_ids)
    THEN { At(material_ids, fid \div 3) }
    ELSE OutOfBoundsInts

\* the Materials block: one Material per parsed record, or the default
ResolveMaterials(objMats) ==
    LET converted == [i \in 1..Len(objMats) |->
                        [Diffuse |-> <<objMats[i].diffuse[1], objMats[i].diffuse[2],
                                       objMats[i].diffuse[3], 10>>]]
    IN  IF Len(converted) = 0
        THEN << [Diffuse |-> <<7, 7, 7, 10>>] >>
        ELSE converted

\* AssembleVertex with the V flip forgotten
AssembleVertexNoFlip(attrib, index, materialId) ==
    [Position |-> << At(attrib.vertices, 3 * index.vertex_index + 0),
                     At(attrib.vertices, 3 * index.vertex_index + 1),
                     At(attrib.vertices, 3 * index.vertex_index + 2) >>,
     Normal   |-> << At(attrib.normals, 3 * index.normal_index + 0),
                     At(attrib.normals, 3 * index.normal_index + 1),
                     At(attrib.normals, 3 * index.normal_index + 2) >>,
     TexCoord |-> IF Len(attrib.texcoords) # 0
                  THEN << At(attrib.texcoords, 2 * index.texcoord_index + 0),
                          At(attrib.texcoords, 2 * index.texcoord_index + 1) >>
                  ELSE <<0, 0>>,
     MaterialIndex |-> Max(0, materialId)]

\* the Vertex the corner loop assembles for one corner
AssembleVertex(attrib, index, materialId) ==
    [Position |-> << At(attrib.vertices, 3 * index.vertex_index + 0),
                     At(attrib.vertices, 3 * index.vertex_index + 1),
                     At(attrib.vertices, 3 * index.vertex_index + 2) >>,
     Normal   |-> << At(attrib.normals, 3 * index.normal_index + 0),
                     At(attrib.normals, 3 * index.normal_index + 1),
                     At(attrib.normals, 3 * index.normal_index + 2) >>,
     TexCoord |-> IF Len(attrib.texcoords) # 0
                  THEN << At(attrib.texcoords, 2 * index.texcoord_index + 0),
                          1 - At(attrib.texcoords, 2 * index.texcoord_index + 1) >>
                  ELSE <<0, 0>>,
     MaterialIndex |-> Max(0, materialId)]

\* Intern with the count() test gone: every corner is pushed
InternAlwaysAppends(uniq, verts, vertex) ==
    LET uniq2 == [v \in DOMAIN uniq \cup {vertex} |->
                     IF v = vertex THEN UInt32(Len(verts)) ELSE uniq[v]]
    IN  [uniqueVertices |-> uniq2, vertices |-> Append(verts, vertex),
         index |-> uniq2[vertex]]

\* Intern recording the size after the push instead of the size before it
InternRecordsSizeAfterPush(uniq, verts, vertex) ==
    LET fresh == vertex \notin DOMAIN uniq
        uniq2 == IF fresh
                 THEN [v \in DOMAIN uniq \cup {vertex} |->
                          IF v = vertex THEN UInt32(Len(verts) + 1) ELSE uniq[v]]
                 ELSE uniq
        verts2 == IF fresh THEN Append(verts, vertex) ELSE verts
    IN  [uniqueVertices |-> uniq2, vertices |-> verts2, index |-> uniq2[vertex]]

\* Intern pushing the index of the last vertex instead of the recorded one
InternReturnsLastIndex(uniq, verts, vertex) ==
    LET fresh == vertex \notin DOMAIN uniq
        uniq2 == IF fresh
                 THEN [v \in DOMAIN uniq \cup {vertex} |->
                          IF v = vertex THEN UInt32(Len(verts)) ELSE uniq[v]]
                 ELSE uniq
        verts2 == IF fresh THEN Append(verts, vertex) ELSE verts
    IN  [uniqueVertices |-> uniq2, vertices |-> verts2,
         index |-> UInt32(Len(verts2) - 1)]

\* Intern with a vertex identity that looks at the position alone
InternByPosition(uniq, verts, vertex) ==
    LET same == { v \in DOMAIN uniq : v.Position = vertex.Position }
        fresh == same = {}
        uniq2 == IF fresh
                 THEN [v \in DOMAIN uniq \cup {vertex} |->
                          IF v = vertex THEN UInt32(Len(verts)) ELSE uniq[v]]
                 ELSE uniq
        verts2 == IF fresh THEN Append(verts, vertex) ELSE verts
    IN  [uniqueVertices |-> uniq2, vertices |-> verts2,
         index |-> IF fresh THEN uniq2[vertex] ELSE uniq[CHOOSE v \in same : TRUE]]

\* the lookup-or-insert on uniqueVertices and vertices, and the index pushed
Intern(uniq, verts, vertex) ==
    LET fresh == vertex \notin DOMAIN uniq
        uniq2 == IF fresh
                 THEN [v \in DOMAIN uniq \cup {vertex} |->
                          IF v = vertex THEN UInt32(Len(verts)) ELSE uniq[v]]
                 ELSE uniq
        verts2 == IF fresh THEN Append(verts, vertex) ELSE verts
    IN  [uniqueVertices |-> uniq2, vertices |-> verts2, index |-> uniq2[vertex]]

\* LoadObj with the parser's return value ignored
LoadObjIgnoringFailure(out) ==
    /\ pc = "start"
    /\ pc' = "warn"
    /\ objAttrib' = out.attrib
    /\ objShapes' = out.shapes
    /\ objMaterials' = out.materials
    /\ warn' = out.warn
    /\ UNCHANGED thrown
    /\ UNCHANGED <<materials, vertices, indices, uniqueVertices, faceId, shapeIdx,
                   cornerIdx, corners, console, constructed, fields, transformCalls>>

\* tinyobj::LoadObj returning out, and the Throw on its failure
LoadObjOf(out) ==
    /\ pc = "start"
    /\ IF ~out.ok
       THEN /\ pc' = "failed"
            /\ thrown' = "runtime_error: failed to load model"
            /\ UNCHANGED <<objAttrib, objShapes, objMaterials, warn>>
       ELSE /\ pc' = "warn"
            /\ objAttrib' = out.attrib
            /\ objShapes' = out.shapes
            /\ objMaterials' = out.materials
            /\ warn' = out.warn
            /\ UNCHANGED thrown
    /\ UNCHANGED <<materials, vertices, indices, uniqueVertices, faceId, shapeIdx,
                   cornerIdx, corners, console, constructed, fields, transformCalls>>

LoadObj ==
    /\ pc = "start"
    /\ \E out \in ParserOutputs : LoadObjOf(out)

\* if (!warn.empty()) Console::Write(Severity::Warning, ...)
WriteWarning ==
    /\ pc = "warn"
    /\ console' = IF warn # ""
                  THEN Append(console, [severity |-> "Warning", text |-> warn])
                  ELSE console
    /\ pc' = "materials"
    /\ UNCHANGED <<locals, constructed, fields, thrown, transformCalls>>

\* the Materials block and the declarations of the Geometry block
Materials ==
    /\ pc = "materials"
    /\ materials' = ResolveMaterials(objMaterials)
    /\ vertices' = << >>
    /\ indices' = << >>
    /\ uniqueVertices' = EmptyMap
    /\ faceId' = 0
    /\ shapeIdx' = 1
    /\ cornerIdx' = 0
    /\ pc' = "geometry"
    /\ UNCHANGED <<objAttrib, objShapes, objMaterials, warn, corners, console,
                   constructed, fields, thrown, transformCalls>>

\* one iteration of the corner loop (and the step of the shape loop after
\* the last corner of a shape)
CornerStep ==
    /\ pc = "geometry"
    /\ shapeIdx <= Len(objShapes)
    /\ LET mesh  == objShapes[shapeIdx].mesh
           index == At(mesh.indices, cornerIdx)
       IN  \E materialId \in MaterialIdRead(mesh.material_ids, faceId) :
             LET vertex == AssembleVertex(objAttrib, index, materialId)
                 r      == Intern(uniqueVertices, vertices, vertex)
             IN  /\ uniqueVertices' = r.uniqueVertices
                 /\ vertices' = r.vertices
                 /\ indices' = Append(indices, r.index)
                 /\ faceId' = faceId + 1
                 /\ corners' = Append(corners, [vertex |-> vertex,
                                                shape |-> shapeIdx,
                                                corner |-> cornerIdx])
                 /\ IF cornerIdx + 1 < Len(mesh.indices)
                    THEN cornerIdx' = cornerIdx + 1 /\ shapeIdx' = shapeIdx
                    ELSE cornerIdx' = 0 /\ shapeIdx' = shapeIdx + 1
    /\ UNCHANGED <<pc, objAttrib, objShapes, objMaterials, warn, materials, console,
                   constructed, fields, thrown, transformCalls>>

\* return Model(move(vertices), move(indices), move(materials), nullptr):
\* the Model is constructed and LoadModel's locals are gone
Return ==
    /\ pc = "geometry"
    /\ shapeIdx > Len(objShapes)
    /\ constructed' = TRUE
    /\ vertices_' = vertices
    /\ indices_' = indices
    /\ materials_' = materials
    /\ procedural_' = Nullptr
    /\ pc' = "done"
    /\ objAttrib' = EmptyAttrib
    /\ objShapes' = << >>
    /\ objMaterials' = << >>
    /\ warn' = ""
    /\ materials' = << >>
    /\ vertices' = << >>
    /\ indices' = << >>
    /\ uniqueVertices' = EmptyMap
    /\ faceId' = 0
    /\ shapeIdx' = 0
    /\ cornerIdx' = 0
    /\ corners' = << >>
    /\ UNCHANGED <<console, thrown, transformCalls>>

----------------------------------------------------------------------------
(* CreateSphere *)

\* what the Icosphere generator can return: flat parallel arrays of N points
\* and a triangle index list over them.  The first output is one triangle;
\* the second has four points, the last a repeat of the first, and two
\* triangles.
IcosphereOutputs ==
    { [vertices  |-> <<1, 0, 0,  0, 1, 0,  0, 0, 1>>,
       normals   |-> <<1, 0, 0,  0, 1, 0,  0, 0, 1>>,
       texCoords |-> <<0, 0,  1, 0,  0, 1>>,
       indices   |-> <<0, 1, 2>>],
      [vertices  |-> <<1, 0, 0,  0, 1, 0,  0, 0, 1,  1, 0, 0>>,
       normals   |-> <<1, 0, 0,  0, 1, 0,  0, 0, 1,  1, 0, 0>>,
       texCoords |-> <<0, 0,  1, 0,  0, 1,  0, 0>>,
       indices   |-> <<0, 1, 2,  2, 1, 3>>] }

\* Icosphere::VertexCount()
VertexCount(ico) == Len(ico.vertices) \div 3

Centers == { <<0, 0, 0>>, <<1, 2, 3>> }

Radii == { 1, 2 }

MaterialChoices == { [Diffuse |-> <<10, 0, 0, 10>>], [Diffuse |-> <<0, 10, 0, 10>>] }

\* the vertex loop of CreateSphere with the center offset forgotten
SphereVerticesNoOffset(ico, center) ==
    [k \in 1..VertexCount(ico) |->
        LET i == k - 1
        IN  [Position |-> << At(ico.vertices, i * 3 + 0),
                             At(ico.vertices, i * 3 + 1),
                             At(ico.vertices, i * 3 + 2) >>,
             Normal   |-> << At(ico.normals, i * 3 + 0),
                             At(ico.normals, i * 3 + 1),
                             At(ico.normals, i * 3 + 2) >>,
             TexCoord |-> << At(ico.texCoords, i * 2 + 0),
                             At(ico.texCoords, i * 2 + 1) >>,
             MaterialIndex |-> 0]]

\* the vertex loop of CreateSphere
SphereVertices(ico, center) ==
    [k \in 1..VertexCount(ico) |->
        LET i == k - 1
        IN  [Position |-> << At(ico.vertices, i * 3 + 0) + center[1],
                             At(ico.vertices, i * 3 + 1) + center[2],
                             At(ico.vertices, i * 3 + 2) + center[3] >>,
             Normal   |-> << At(ico.normals, i * 3 + 0),
                             At(ico.normals, i * 3 + 1),
                             At(ico.normals, i * 3 + 2) >>,
             TexCoord |-> << At(ico.texCoords, i * 2 + 0),
                             At(ico.texCoords, i * 2 + 1) >>,
             MaterialIndex |-> 0]]

\* isProcedural ? new Sphere(center, radius) : nullptr
SphereProcedural(center, radius, isProcedural) ==
    IF isProcedural THEN << [center |-> center, radius |-> radius] >> ELSE Nullptr

CreateSphereOf(center, radius, ico, material, isProcedural) ==
    /\ pc = "start"
    /\ vertices_' = SphereVertices(ico, center)
    /\ indices_' = ico.indices
    /\ materials_' = << material >>
    /\ procedural_' = SphereProcedural(center, radius, isProcedural)
    /\ constructed' = TRUE
    /\ pc' = "done"
    /\ UNCHANGED <<locals, console, thrown, transformCalls>>

CreateSphere ==
    \E center \in Centers, radius \in Radii, ico \in IcosphereOutputs,
       material \in MaterialChoices, isProcedural \in BOOLEAN :
        CreateSphereOf(center, radius, ico, material, isProcedural)

----------------------------------------------------------------------------
(* SetMaterial and Transform *)

\* SetMaterial with the size guard gone
SetMaterialUnguarded(material) ==
    /\ pc = "done"
    /\ materials_' = [materials_ EXCEPT ![1] = material]
    /\ thrown' = ""
    /\ UNCHANGED <<pc, locals, console, constructed, vertices_, indices_,
                   procedural_, transformCalls>>

SetMaterialOf(material) ==
    /\ pc = "done"
    /\ IF Len(materials_) # 1
       THEN /\ thrown' = "runtime_error: cannot change material on a multi-material model"
            /\ UNCHANGED materials_
       ELSE /\ materials_' = [materials_ EXCEPT ![1] = material]
            /\ thrown' = ""
    /\ UNCHANGED <<pc, locals, console, constructed, vertices_, indices_,
                   procedural_, transformCalls>>

SetMaterial == \E material \in MaterialChoices : SetMaterialOf(material)

\* determinant of a 3x3 matrix given as rows
Det3(a) ==
      a[1][1] * (a[2][2] * a[3][3] - a[2][3] * a[3][2])
    - a[1][2] * (a[2][1] * a[3][3] - a[2][3] * a[3][1])
    + a[1][3] * (a[2][1] * a[3][2] - a[2][2] * a[3][1])

\* the cofactor of entry (i, j) of a 4x4 matrix
Cofactor(m, i, j) ==
    LET sub == [r \in 1..3 |-> [c \in 1..3 |->
                    m[IF r < i THEN r ELSE r + 1][IF c < j THEN c ELSE c + 1]]]
        sign == IF (i + j) % 2 = 0 THEN 1 ELSE -1
    IN  sign * Det3(sub)

Det4(m) ==
    m[1][1] * Cofactor(m, 1, 1) + m[1][2] * Cofactor(m, 1, 2)
  + m[1][3] * Cofactor(m, 1, 3) + m[1][4] * Cofactor(m, 1, 4)

\* glm::inverseTranspose: the cofactor matrix over the determinant (the
\* matrices used here have determinant 1 or -1, so the division is exact)
InverseTranspose(m) ==
    [i \in 1..4 |-> [j \in 1..4 |-> Cofactor(m, i, j) \div Det4(m)]]

\* mat4 * vec4, truncated to vec3
MulVec3(m, v) ==
    [r \in 1..3 |-> m[r][1] * v[1] + m[r][2] * v[2] + m[r][3] * v[3] + m[r][4] * v[4]]

\* a shear of x by y with a translation along x, and a mirror of z
TransformChoices ==
    { << <<1, 1, 0, 1>>, <<0, 1, 0, 0>>, <<0, 0, 1, 0>>, <<0, 0, 0, 1>> >>,
      << <<1, 0, 0, 0>>, <<0, 1, 0, 0>>, <<0, 0, -1, 0>>, <<0, 0, 0, 1>> >> }

TransformVertex(vertex, transform, transformIT) ==
    [vertex EXCEPT
        !.Position = MulVec3(transform, <<vertex.Position[1], vertex.Position[2],
                                          vertex.Position[3], 1>>),
        !.Normal   = MulVec3(transformIT, <<vertex.Normal[1], vertex.Normal[2],
                                            vertex.Normal[3], 0>>)]

TransformBy(transform) ==
    /\ pc = "done"
    /\ transformCalls < MaxTransformCalls
    /\ \E transformIT \in { InverseTranspose(transform) } :
         vertices_' = [i \in 1..Len(vertices_) |->
                          TransformVertex(vertices_[i], transform, transformIT)]
    /\ transformCalls' = transformCalls + 1
    /\ thrown' = ""
    /\ UNCHANGED <<pc, locals, console, constructed, indices_, materials_, procedural_>>

Transform == \E transform \in TransformChoices : TransformBy(transform)

----------------------------------------------------------------------------
(* The lifecycle of one Model *)

Init ==
    /\ pc = "start"
    /\ objAttrib = EmptyAttrib
    /\ objShapes = << >>
    /\ objMaterials = << >>
    /\ warn = ""
    /\ materials = << >>
    /\ vertices = << >>
    /\ indices = << >>
    /\ uniqueVertices = EmptyMap
    /\ faceId = 0
    /\ shapeIdx = 0
    /\ cornerIdx = 0
    /\ corners = << >>
    /\ console = << >>
    /\ constructed = FALSE
    /\ vertices_ = << >>
    /\ indices_ = << >>
    /\ materials_ = << >>
    /\ procedural_ = Nullptr
    /\ thrown = ""
    /\ transformCalls = 0

Next ==
    \/ LoadObj
    \/ WriteWarning
    \/ Materials
    \/ CornerStep
    \/ Return
    \/ CreateSphere
    \/ SetMaterial
    \/ Transform

Spec == Init /\ [][Next]_vars

\* LoadModel is synchronous and runs on the calling thread: once called it
\* takes its steps until it throws or returns
LoadModelStep == LoadObj \/ WriteWarning \/ Materials \/ CornerStep \/ Return

FairSpec == Spec /\ WF_vars(LoadModelStep)

----------------------------------------------------------------------------
(* Properties *)

\* the vertices assembled for the corners visited so far, in visiting order
Assembled == [k \in 1..Len(corners) |-> corners[k].vertex]

FieldwiseEqual(a, b) ==
    /\ a.Position = b.Position
    /\ a.Normal = b.Normal
    /\ a.TexCoord = b.TexCoord
    /\ a.MaterialIndex = b.MaterialIndex

\* the corner loop has visited every corner of every shape
LoopFinished == pc = "geometry" /\ shapeIdx > Len(objShapes)

\* the parser's index triple of the k-th corner visited
CornerRef(k) == At(objShapes[corners[k].shape].mesh.indices, corners[k].corner)

\* the material id the k-th corner's own face has in its own shape's list
OwnMaterialId(k) ==
    At(objShapes[corners[k].shape].mesh.material_ids, corners[k].corner \div 3)

RECURSIVE TotalCorners(_)
TotalCorners(shapes) ==
    IF Len(shapes) = 0 THEN 0
    ELSE Len(Head(shapes).mesh.indices) + TotalCorners(Tail(shapes))

\* the distinct elements of a sequence in order of first occurrence
RECURSIVE FirstOccurrences(_)
FirstOccurrences(seq) ==
    IF Len(seq) = 0 THEN << >>
    ELSE LET init == SubSeq(seq, 1, Len(seq) - 1)
             last == seq[Len(seq)]
         IN  IF last \in Range(init)
             THEN FirstOccurrences(init)
             ELSE Append(FirstOccurrences(init), last)

\* C1: at every step of the corner loop, finished or not, no two positions
\* of the vertex buffer hold field-wise-equal vertices, and the buffer is as
\* long as there are distinct (position, normal, texcoord, materialIndex)
\* tuples among the corners visited so far.
C1_DedupCorrect ==
    pc = "geometry" =>
        /\ \A i, j \in 1..Len(vertices) :
              i # j => ~FieldwiseEqual(vertices[i], vertices[j])
        /\ Len(vertices) = Cardinality(Range(Assembled))

\* a finished load of two faces in which a tuple came back
C1_Witness ==
    /\ LoopFinished
    /\ Len(corners) = 6
    /\ Len(vertices) \in 2..5

\* C2: in a constructed Model, whatever Transform and SetMaterial calls
\* (rejected ones too) were made on it, every index is below the number of
\* vertices and the number of indices is a multiple of 3.
C2_IndexValidity ==
    constructed =>
        /\ \A k \in 1..Len(indices_) :
              indices_[k] >= 0 /\ indices_[k] < Len(vertices_)
        /\ Len(indices_) % 3 = 0

\* a loaded Model that was transformed and then refused a SetMaterial
C2_Witness ==
    /\ constructed
    /\ procedural_ = Nullptr
    /\ Len(indices_) = 6
    /\ transformCalls > 0
    /\ thrown # ""

\* C3: in a constructed Model the material table is not empty and every
\* vertex's MaterialIndex is at least 0 and below the table's length.
C3_MaterialInvariant ==
    constructed =>
        /\ Len(materials_) >= 1
        /\ \A i \in 1..Len(vertices_) :
              /\ vertices_[i].MaterialIndex >= 0
              /\ vertices_[i].MaterialIndex < Len(materials_)

\* C4: a SetMaterial(m) call on a Model of more than one material raises an
\* error and leaves materials, vertices and indices as they were; on a Model
\* of exactly one material it raises nothing and leaves the table <<m>>,
\* vertices and indices as they were.
C4_SetMaterialGuard ==
    [][ \A m \in MaterialChoices :
          SetMaterialOf(m) =>
              /\ Len(materials_) > 1 =>
                    /\ thrown' # ""
                    /\ materials_' = materials_
                    /\ vertices_' = vertices_
                    /\ indices_' = indices_
              /\ Len(materials_) = 1 =>
                    /\ thrown' = ""
                    /\ materials_' = << m >>
                    /\ vertices_' = vertices_
                    /\ indices_' = indices_ ]_vars

\* a two-material Model that has refused a SetMaterial
C4_Witness ==
    /\ pc = "done"
    /\ Len(materials_) = 2
    /\ thrown # ""

\* C5: every corner visited got the MaterialIndex max(0, m), m the material
\* id of the corner's own face in its own shape's list, and the position
\* faceId / 3 about to be read lies inside the current shape's list.
C5_OwnFaceMaterial ==
    pc = "geometry" =>
        /\ \A k \in 1..Len(corners) :
              corners[k].vertex.MaterialIndex = Max(0, OwnMaterialId(k))
        /\ shapeIdx <= Len(objShapes) =>
              faceId \div 3 < Len(objShapes[shapeIdx].mesh.material_ids)

\* the diagnostics sink holds the parser's warning
WarningLogged ==
    \E i \in 1..Len(console) :
        console[i].severity = "Warning" /\ console[i].text # ""

NothingBuilt ==
    /\ ~constructed
    /\ materials = << >>
    /\ vertices = << >>
    /\ indices = << >>
    /\ corners = << >>
    /\ fields = << << >>, << >>, << >>, Nullptr >>

\* C6: when the parser fails, LoadModel throws at once: nothing was resolved
\* or assembled, no Model exists, and nothing happens afterwards.  When the
\* parser succeeds with a warning, the warning is in the diagnostics sink
\* before the materials are resolved, and the load goes on to return a Model.
C6_FailureAndWarning ==
    /\ [][ pc = "start" =>
             \A out \in ParserFailures :
                 LoadObjOf(out) => pc' = "failed" /\ thrown' # "" /\ NothingBuilt' ]_vars
    /\ [](pc = "failed" => thrown # "" /\ NothingBuilt)
    /\ [][ pc # "failed" ]_vars
    /\ []((pc \in {"materials", "geometry"} /\ warn # "") => WarningLogged)
    /\ ((pc = "warn" /\ warn # "") ~> (pc = "done" /\ constructed /\ WarningLogged))

\* a Model loaded from a file the parser warned about
C6_Witness ==
    /\ pc = "done"
    /\ constructed
    /\ WarningLogged
    /\ Len(indices_) > 0

\* the first position at which vertex v was assembled
FirstCorner(v) ==
    CHOOSE k \in 1..Len(corners) :
        /\ corners[k].vertex = v
        /\ \A j \in 1..(k - 1) : corners[j].vertex # v

\* C7: a step of the corner loop whose tuple is new appends it at the end of
\* the vertex buffer and pushes (length after the append) - 1; a step whose
\* tuple was seen appends nothing and pushes the index pushed at the tuple's
\* first occurrence.  No recorded index, stored vertex or pushed index
\* changes, and the buffer lists the distinct tuples in order of first
\* occurrence.
C7_InternStable ==
    /\ [](pc = "geometry" => vertices = FirstOccurrences(Assembled))
    /\ [][ (pc = "geometry" /\ Len(corners') = Len(corners) + 1) =>
             LET v == corners'[Len(corners')].vertex
             IN  /\ IF v \in Range(Assembled)
                    THEN /\ vertices' = vertices
                         /\ indices'[Len(indices')] = indices[FirstCorner(v)]
                    ELSE /\ vertices' = Append(vertices, v)
                         /\ indices'[Len(indices')] = Len(vertices') - 1
                 /\ Len(indices') = Len(indices) + 1
                 /\ SubSeq(indices', 1, Len(indices)) = indices
                 /\ SubSeq(vertices', 1, Len(vertices)) = vertices
                 /\ \A u \in DOMAIN uniqueVertices :
                       /\ u \in DOMAIN uniqueVertices'
                       /\ uniqueVertices'[u] = uniqueVertices[u] ]_vars

\* a load in which the last corner visited repeated the very first tuple
\* while other vertices had been stored since
C7_Witness ==
    /\ pc = "geometry"
    /\ Len(corners) >= 4
    /\ Len(vertices) >= 3
    /\ corners[Len(corners)].vertex = corners[1].vertex
    /\ indices[Len(indices)] = 0

\* what CreateSphere has to return for the given arguments
SpherePost(center, radius, ico, material, isProcedural) ==
    LET N == Len(ico.vertices) \div 3
    IN  /\ Len(vertices_) = N
        /\ \A i \in 0..(N - 1) :
              /\ vertices_[i + 1].Position =
                    << ico.vertices[3 * i + 1] + center[1],
                       ico.vertices[3 * i + 2] + center[2],
                       ico.vertices[3 * i + 3] + center[3] >>
              /\ vertices_[i + 1].Normal =
                    << ico.normals[3 * i + 1], ico.normals[3 * i + 2],
                       ico.normals[3 * i + 3] >>
              /\ vertices_[i + 1].TexCoord =
                    << ico.texCoords[2 * i + 1], ico.texCoords[2 * i + 2] >>
              /\ vertices_[i + 1].MaterialIndex = 0
        /\ indices_ = ico.indices
        /\ materials_ = << material >>
        /\ (procedural_ # Nullptr) <=> isProcedural
        /\ isProcedural => procedural_ = << [center |-> center, radius |-> radius] >>

\* C8: CreateSphere returns a Model of exactly the generator's N points in
\* the generator's order, each moved by the center, with the generator's
\* normals and texcoords, MaterialIndex 0, the generator's index list, the
\* one material given, and the (center, radius) descriptor exactly when
\* isProcedural.
C8_CreateSphere ==
    [][ pc = "start" =>
          \A center \in Centers, radius \in Radii, ico \in IcosphereOutputs,
             material \in MaterialChoices, isProcedural \in BOOLEAN :
              CreateSphereOf(center, radius, ico, material, isProcedural) =>
                  SpherePost(center, radius, ico, material, isProcedural)' ]_vars

\* a procedural sphere off the origin whose repeated generator point was kept
C8_Witness ==
    /\ pc = "done"
    /\ transformCalls = 0
    /\ procedural_ # Nullptr
    /\ Len(vertices_) = 4
    /\ vertices_[1] = vertices_[4]
    /\ vertices_[1].Position = <<2, 2, 3>>

C10_RoundTrip ==
    pc = "geometry" =>
        /\ Len(indices) = Len(corners)
        /\ \A k \in 1..Len(indices) :
              /\ indices[k] >= 0 /\ indices[k] < Len(vertices)
              /\ FieldwiseEqual(vertices[indices[k] + 1], corners[k].vertex)
        /\ \A k \in 1..Len(corners) :
              \A j \in 1..(k - 1) :
                  \/ corners[j].shape < corners[k].shape
                  \/ /\ corners[j].shape = corners[k].shape
                     /\ corners[j].corner < corners[k].corner
        /\ LoopFinished => Len(indices) = TotalCorners(objShapes)

\* a finished load of two shapes whose second face reuses vertices of the first
C10_Witness ==
    /\ LoopFinished
    /\ Len(objShapes) = 2
    /\ Len(indices) = 6
    /\ Len(vertices) < 6
    /\ \E k \in 4..6 : indices[k] < 3

====
